---------------------------- MODULE Spec2Model ----------------------------
(***************************************************************************)
(* YOLO_train: the dataset reformatter (scripts/auto_format_dataset.py),   *)
(* the manifest generators (scripts/prepare_data.py,                       *)
(* scripts/download_dataset.py), the training entry point                  *)
(* (scripts/train.py) and the staged orchestrator                          *)
(* (scripts/run_pipeline.py), as one state machine over the dataset root.  *)
(*                                                                         *)
(* Every script is a synchronous call: a script run is one action, and     *)
(* the scripts it spawns with subprocess.run are part of that action.      *)
(* The orchestrator takes one action per stage.                            *)
(***************************************************************************)
EXTENDS Integers, Sequences, FiniteSets, TLC

(***************************************************************************)
(* Bounds of the model.                                                    *)
(***************************************************************************)
\* image stems 1..MaxImages may occur in a source directory
MaxImages == 5
\* top-level commands issued one after another on the same dataset root
MaxRuns == 2

(***************************************************************************)
(* File names: a stem and a suffix (pathlib's p.stem, p.suffix).           *)
(***************************************************************************)
Suffixes == {".JPG", ".TXT", ".jpg", ".png", ".txt", ".md"}

\* a stem beyond the images': a label that no image pairs with
OrphanStem == MaxImages + 1

Names == [stem : 1..OrphanStem, suffix : Suffixes]

Name(s, x) == [stem |-> s, suffix |-> x]

\* str.lower() on the suffixes of the model
Lower(x) ==
    CASE x = ".JPG" -> ".jpg"
      [] x = ".TXT" -> ".txt"
      [] OTHER -> x

SUPPORTED_IMAGE_EXTS == {".jpg", ".jpeg", ".png", ".bmp"}

IsImage(n) == Lower(n.suffix) \in SUPPORTED_IMAGE_EXTS

IsLabel(n) == Lower(n.suffix) = ".txt"

\* img_path.with_suffix(".txt")
WithSuffixTxt(n) == [n EXCEPT !.suffix = ".txt"]

\* the order of str on suffixes (upper case sorts before lower case)
SuffixRank(x) ==
    CASE x = ".JPG" -> 1
      [] x = ".TXT" -> 2
      [] x = ".jpg" -> 3
      [] x = ".md"  -> 4
      [] x = ".png" -> 5
      [] x = ".txt" -> 6

\* Path.__lt__ on two entries of one directory: the order of their names
NameLess(a, b) ==
    \/ a.stem < b.stem
    \/ a.stem = b.stem /\ SuffixRank(a.suffix) < SuffixRank(b.suffix)

\* sorted(S) for a set of names of one directory
RECURSIVE SortedNames(_)
SortedNames(S) ==
    IF S = {} THEN <<>>
    ELSE LET m == CHOOSE x \in S : \A y \in S \ {x} : NameLess(x, y)
         IN  <<m>> \o SortedNames(S \ {m})

(***************************************************************************)
(* The dataset root: directories that exist and their direct entries.      *)
(* "." is the base directory itself; "raw" and "alt" are directories of    *)
(* raw material; the others are the leaves of the YOLO layout.  The        *)
(* parents train/, val/ and test/ hold nothing but these leaves.           *)
(***************************************************************************)
TargetLeaves == <<"train/images", "train/labels", "val/images", "val/labels">>

\* every directory below the base, in the order of sorted(base.rglob("*"))
SubDirOrder ==
    <<"alt", "raw", "test/images", "train/images", "train/labels",
      "val/images", "val/labels">>

SubDirs == {SubDirOrder[i] : i \in DOMAIN SubDirOrder}

Paths == {"."} \cup SubDirs

Absent == [ex |-> FALSE, ents |-> {}]

EmptyDir == [ex |-> TRUE, ents |-> {}]

DirWith(S) == [ex |-> TRUE, ents |-> S]

\* Path.exists() of a directory of the model
Exists(dir, p) == dir[p].ex

\* any(target.iterdir())
NonEmpty(dir, p) == dir[p].ents # {}

\* target.mkdir(parents=True, exist_ok=True)
Mkdir(dir, p) == [dir EXCEPT ![p].ex = TRUE, !["."].ex = TRUE]

\* shutil.move in the place of shutil.copy2: the file is at dst and no more
\* where it was
Move2(dir, n, dst) ==
    [p \in Paths |->
        IF p = dst THEN [dir[p] EXCEPT !.ents = @ \cup {n}]
        ELSE [dir[p] EXCEPT !.ents = @ \ {n}]]

\* shutil.copy2(src_dir / n, dst_dir / n)
Copy2(dir, n, dst) == [dir EXCEPT ![dst].ents = @ \cup {n}]


(***************************************************************************)
(* auto_format_dataset.py                                                  *)
(***************************************************************************)
ImagesIn(dir, p) == {n \in dir[p].ents : IsImage(n)}

LabelsIn(dir, p) == {n \in dir[p].ents : IsLabel(n)}

\* directories holding at least one image and at least one label, in sorted
\* order; base_path.rglob("*") yields what is below the base, not the base
IsCandidate(dir, p) ==
    /\ Exists(dir, p)
    /\ ImagesIn(dir, p) # {}
    /\ LabelsIn(dir, p) # {}

discover_source_dirs(dir) ==
    SelectSeq(SubDirOrder, LAMBDA p : IsCandidate(dir, p))

\* sum(1 for _ in p.glob("*"))
EntryCount(dir, p) == Cardinality(dir[p].ents)

\* max(candidates, key=...) returning the last candidate of maximal key
MaxByCountLast(dir, cands) ==
    LET best == CHOOSE i \in DOMAIN cands :
                  /\ \A j \in DOMAIN cands :
                        EntryCount(dir, cands[j]) <= EntryCount(dir, cands[i])
                  /\ \A j \in (i + 1)..Len(cands) :
                        EntryCount(dir, cands[j]) < EntryCount(dir, cands[i])
    IN  cands[best]

\* max(candidates, key=...): the first candidate of maximal key
MaxByCount(dir, cands) ==
    LET best == CHOOSE i \in DOMAIN cands :
                  /\ \A j \in DOMAIN cands :
                        EntryCount(dir, cands[j]) <= EntryCount(dir, cands[i])
                  /\ \A j \in 1..(i - 1) :
                        EntryCount(dir, cands[j]) < EntryCount(dir, cands[i])
    IN  cands[best]

\* The generator behind random.seed/random.shuffle is the standard
\* library's; a small congruential generator stands for it: the k-th state
\* after seeding with seed.
RECURSIVE Rng(_, _)
Rng(seed, k) ==
    IF k = 0 THEN seed % 64 ELSE (Rng(seed, k - 1) * 13 + 7) % 64

\* the k-th call of randbelow(n) after random.seed(seed)
RandBelow(seed, k, n) == (Rng(seed, k) \div 4) % n

Swap(s, i, j) == [s EXCEPT ![i] = s[j], ![j] = s[i]]

\* random.shuffle: for i in reversed(range(1, len(x))): j = randbelow(i + 1);
\* x[i], x[j] = x[j], x[i].  Positions are 1-based here; i is the 1-based
\* position being settled and k the number of draws made before it.
RECURSIVE ShuffleFrom(_, _, _, _)
ShuffleFrom(s, seed, i, k) ==
    IF i < 2 THEN s
    ELSE ShuffleFrom(Swap(s, i, 1 + RandBelow(seed, k + 1, i)), seed, i - 1, k + 1)

Shuffle(s, seed) == ShuffleFrom(s, seed, Len(s), 0)

\* int(x) of the float num/den * n: truncation toward zero
Trunc(num, den) ==
    IF num >= 0 THEN num \div den ELSE -((-num) \div den)

\* split_idx = int(len(images) * train_split), train_split = ratio[1]/ratio[2]
SplitIdx(n, ratio) == Trunc(n * ratio[1], ratio[2])

\* a slice bound of a list of length n: negative counts from the end, and
\* bounds are clipped to 0..n
Clip(k, n) ==
    IF k < 0 THEN (IF k + n < 0 THEN 0 ELSE k + n)
    ELSE IF k > n THEN n ELSE k

\* s[:k]
Prefix(s, k) == SubSeq(s, 1, Clip(k, Len(s)))

\* s[k:]
Suffix(s, k) == SubSeq(s, Clip(k, Len(s)) + 1, Len(s))

\* a or b on lists
OrElse(a, b) == IF a # <<>> THEN a ELSE b

\* train_items without its fallback
TrainItemsNoFallback(images, k) == Prefix(images, k)

\* train_items = images[:split_idx] or images
TrainItems(images, k) == OrElse(Prefix(images, k), images)

\* val_items without the fallback to the first fifth
ValItemsNoFifth(images, k) == OrElse(Suffix(images, k), images)

\* val_items starting one past the split index
ValItemsOffByOne(images, k) ==
    OrElse(Suffix(images, k + 1), OrElse(Prefix(images, Len(images) \div 5), images))

\* val_items = images[split_idx:] or images[: len(images) // 5] or images
ValItems(images, k) ==
    OrElse(Suffix(images, k), OrElse(Prefix(images, Len(images) \div 5), images))

\* the loop of ensure_clean_targets without its check: directories are made
RECURSIVE MkdirFrom(_, _)
MkdirFrom(dir, i) ==
    IF i > Len(TargetLeaves) THEN [dir |-> dir, raised |-> FALSE, at |-> 0]
    ELSE MkdirFrom(Mkdir(dir, TargetLeaves[i]), i + 1)

\* ensure_clean_targets from the i-th leaf on: the directories after the
\* call, whether it raised, and at which leaf
RECURSIVE EnsureFrom(_, _)
EnsureFrom(dir, i) ==
    IF i > Len(TargetLeaves) THEN [dir |-> dir, raised |-> FALSE, at |-> 0]
    ELSE IF Exists(dir, TargetLeaves[i]) /\ NonEmpty(dir, TargetLeaves[i])
         THEN [dir |-> dir, raised |-> TRUE, at |-> i]
         ELSE EnsureFrom(Mkdir(dir, TargetLeaves[i]), i + 1)

\* ensure_clean_targets that looks into the images directories only
RECURSIVE EnsureImagesFrom(_, _)
EnsureImagesFrom(dir, i) ==
    IF i > Len(TargetLeaves) THEN [dir |-> dir, raised |-> FALSE, at |-> 0]
    ELSE IF i \in {1, 3} /\ Exists(dir, TargetLeaves[i]) /\ NonEmpty(dir, TargetLeaves[i])
         THEN [dir |-> dir, raised |-> TRUE, at |-> i]
         ELSE EnsureImagesFrom(Mkdir(dir, TargetLeaves[i]), i + 1)

EnsureImagesOnly(dir) == EnsureImagesFrom(dir, 1)

ensure_clean_targets(dir) == EnsureFrom(dir, 1)

\* base_path / split / sub
LeafOf(split, sub) ==
    CASE split = "train" /\ sub = "images" -> "train/images"
      [] split = "train" /\ sub = "labels" -> "train/labels"
      [] split = "val" /\ sub = "images" -> "val/images"
      [] split = "val" /\ sub = "labels" -> "val/labels"

\* the shutil.copy2 calls of copy_split(images, base_path, split), in order:
\* each image, followed by its label when the label exists beside it
RECURSIVE CopyCalls(_, _, _, _)
CopyCalls(dir, src, items, split) ==
    IF items = <<>> THEN <<>>
    ELSE LET img == Head(items)
             lbl == WithSuffixTxt(img)
             one == <<[name |-> img, to |-> LeafOf(split, "images")]>>
             two == IF lbl \in dir[src].ents
                    THEN <<[name |-> lbl, to |-> LeafOf(split, "labels")]>>
                    ELSE <<>>
         IN  one \o two \o CopyCalls(dir, src, Tail(items), split)

\* the first m copies of calls carried out
RECURSIVE CopyFirst(_, _, _)
CopyFirst(dir, calls, m) ==
    IF m = 0 \/ calls = <<>> THEN dir
    ELSE CopyFirst(Copy2(dir, Head(calls).name, Head(calls).to), Tail(calls), m - 1)

\* the pre-check asking for test/images, val/images not counting
AlreadyYoloTestOnly(dir) ==
    /\ Exists(dir, "train/images")
    /\ Exists(dir, "test/images")

\* the pre-check asking for val/images, test/images not counting
AlreadyYoloValOnly(dir) ==
    /\ Exists(dir, "train/images")
    /\ Exists(dir, "val/images")

\* the pre-check of auto_format_dataset and of auto_format_if_needed
AlreadyYolo(dir) ==
    /\ Exists(dir, "train/images")
    /\ Exists(dir, "val/images") \/ Exists(dir, "test/images")

\* what a run that does not reach the split reports of it
NoPlan ==
    [source |-> ".", listed |-> <<>>, images |-> <<>>, shuffled |-> <<>>, split_idx |-> 0,
     train_items |-> <<>>, val_items |-> <<>>, calls |-> <<>>,
     ratio |-> <<0, 1>>, seed |-> 0]

\* a run of the script: the directories before and after it, its exit code,
\* how it ended, and the split it computed
FormatResult(pre, dir, rc, outcome, plan) ==
    [pre |-> pre, dir |-> dir, rc |-> rc, outcome |-> outcome, plan |-> plan]

\* lines 96-98 as planned: the copies of train_items, then of val_items
PlanCopies(dir, source, listed, images, shuffled, k, train, val, ratio, seed) ==
    [source |-> source, listed |-> listed, images |-> images, shuffled |-> shuffled,
     split_idx |-> k, train_items |-> train, val_items |-> val,
     calls |-> CopyCalls(dir, source, train, "train")
               \o CopyCalls(dir, source, val, "val"),
     ratio |-> ratio, seed |-> seed]

\* lines 92-94: the split of the shuffled list
PlanSplit(dir, source, listed, images, shuffled, k, ratio, seed) ==
    PlanCopies(dir, source, listed, images, shuffled, k,
               TrainItems(shuffled, k), ValItems(shuffled, k), ratio, seed)

\* lines 89-92: the seeded shuffle and the split index
PlanShuffle(dir, source, listed, images, ratio, seed) ==
    PlanSplit(dir, source, listed, images, Shuffle(images, seed),
              SplitIdx(Len(images), ratio), ratio, seed)

\* the order in which iterdir() yields the entries of a directory is the
\* file system's: by name, or by name backwards
Listings == {"asc", "desc"}

Iterdir(S, listing) ==
    IF listing = "asc" THEN SortedNames(S)
    ELSE [i \in 1..Cardinality(S) |-> SortedNames(S)[Cardinality(S) + 1 - i]]

\* sorted(seq) for a sequence of names of one directory
Sorted(seq) == SortedNames({seq[i] : i \in DOMAIN seq})

\* lines 83-85 with the images left in the order iterdir() yielded them
PlanListedUnsorted(dir, source, listed, ratio, seed) ==
    PlanShuffle(dir, source, listed, listed, ratio, seed)

\* lines 83-85: images = sorted(...) of the images iterdir() yielded
PlanListed(dir, source, listed, ratio, seed) ==
    PlanShuffle(dir, source, listed, Sorted(listed), ratio, seed)

\* lines 83-85: the images of the source directory as iterdir() yields them
PlanImages(dir, source, ratio, seed, listing) ==
    PlanListed(dir, source, Iterdir(ImagesIn(dir, source), listing), ratio, seed)

\* lines 80-94: the source directory chosen and the split computed from it
PlanOf(dir, ratio, seed, listing) ==
    PlanImages(dir, MaxByCount(dir, discover_source_dirs(dir)), ratio, seed, listing)

\* lines 86-100 of auto_format_dataset, with the plan of lines 80-94 and the
\* outcome clean of ensure_clean_targets, which runs only if there are images
FormatPlanned(dir, plan, clean, io) ==
    IF plan.images = <<>>
    THEN FormatResult(dir, dir, 1, "no_images", plan)
    ELSE IF clean.raised
    THEN FormatResult(dir, clean.dir, 1, "not_empty", plan)
    ELSE IF io.copies < Len(plan.calls)
    THEN FormatResult(dir, CopyFirst(clean.dir, plan.calls, io.copies), 1,
                      "copy_error", plan)
    ELSE FormatResult(dir, CopyFirst(clean.dir, plan.calls, Len(plan.calls)),
                      0, "formatted", plan)

\* auto_format_dataset(base_dir, train_split, seed) as run by the script's
\* main: an exception that main does not catch ends the process with code 1.
\* io.copies is the number of shutil.copy2 calls the file system lets
\* succeed, io.listing the order in which it lists a directory.
auto_format_dataset(dir, ratio, seed, io) ==
    IF ~Exists(dir, ".")
    THEN FormatResult(dir, dir, 1, "no_base", NoPlan)
    ELSE IF AlreadyYolo(dir)
    THEN FormatResult(dir, dir, 0, "skipped", NoPlan)
    ELSE IF discover_source_dirs(dir) = <<>>
    THEN FormatResult(dir, dir, 1, "no_candidates", NoPlan)
    ELSE FormatPlanned(dir, PlanOf(dir, ratio, seed, io.listing), ensure_clean_targets(dir), io)

(***************************************************************************)
(* The configuration file and the disk.  A configuration is what            *)
(* load_config reads: whether the file exists, dataset.provider, whether    *)
(* dataset.slug is set, and dataset.classes.  dataset.local_dir is the      *)
(* dataset root of the model.                                               *)
(***************************************************************************)
Configs ==
    {[file |-> FALSE, provider |-> "local", slug |-> FALSE, classes |-> <<>>]}
    \cup [file : {TRUE}, provider : {"local", "kaggle"}, slug : {TRUE},
          classes : {<<>>, <<"cat", "dog">>}]
    \cup {[file |-> TRUE, provider |-> "kaggle", slug |-> FALSE,
           classes |-> <<"cat", "dog">>]}

\* no data.yaml under the dataset root
NoYaml == [present |-> FALSE, train |-> ".", val |-> ".", nc |-> 0, names |-> <<>>]

\* the disk: the directories and the manifest data.yaml
Disk(dir, yaml) == [dir |-> dir, yaml |-> yaml]

\* no run of auto_format_dataset.py
NoFmt == [pre |-> <<>>, dir |-> <<>>, rc |-> 0, outcome |-> "none", plan |-> NoPlan]

\* no call of auto_format_if_needed
NoAif == [called |-> FALSE, yolo |-> FALSE, spawned |-> FALSE, pre |-> <<>>, post |-> <<>>]

\* what the environment decides during a script: how the Kaggle fetch ends
\* and what its archive holds, how many copies the file system lets succeed,
\* and the exit code of the training engine
Unlimited == 4 * (MaxImages + 2)

\* the val path without the test/images fallback
ResolveValNoTest(dir) ==
    IF Exists(dir, "val/images") THEN "val/images" ELSE "train/images"

\* the val path of the manifest: val/images, else test/images, else train/images
ResolveVal(dir) ==
    IF Exists(dir, "val/images") THEN "val/images"
    ELSE IF Exists(dir, "test/images") THEN "test/images"
    ELSE "train/images"

Manifest(dir, classes) ==
    [present |-> TRUE, train |-> "train/images", val |-> ResolveVal(dir),
     nc |-> Len(classes), names |-> classes]

(***************************************************************************)
(* prepare_data.py                                                         *)
(***************************************************************************)
\* generate_data_yaml that does not look at classes
PrepareNoClassesCheck(cfg, d) ==
    IF ~Exists(d.dir, "train/images") THEN [d |-> d, err |-> "FileNotFoundError"]
    ELSE [d |-> Disk(d.dir, Manifest(d.dir, cfg.classes)), err |-> "ok"]

\* generate_data_yaml that does not look for train/images
PrepareNoTrainCheck(cfg, d) ==
    IF cfg.classes = <<>> THEN [d |-> d, err |-> "ValueError"]
    ELSE [d |-> Disk(d.dir, Manifest(d.dir, cfg.classes)), err |-> "ok"]

\* generate_data_yaml(dataset_cfg, dataset_dir): the disk after the call and
\* the exception it raised, if any
prepare_generate_data_yaml(cfg, d) ==
    IF cfg.classes = <<>> THEN [d |-> d, err |-> "ValueError"]
    ELSE IF ~Exists(d.dir, "train/images") THEN [d |-> d, err |-> "FileNotFoundError"]
    ELSE [d |-> Disk(d.dir, Manifest(d.dir, cfg.classes)), err |-> "ok"]

\* a run of a script: the disk after it, its exit code, the scripts that ran
\* (itself first), the last run of auto_format_dataset.py in it and the call
\* of auto_format_if_needed in it
ScriptResult(d, rc, scripts, fmt, aif) ==
    [d |-> d, rc |-> rc, scripts |-> scripts, fmt |-> fmt, aif |-> aif]

\* lines 80-86 of main(): exit code 1 on FileNotFoundError and ValueError
PrepareExit(g) ==
    ScriptResult(g.d, IF g.err = "ok" THEN 0 ELSE 1, <<"prepare_data.py">>,
                 NoFmt, NoAif)

\* main() of prepare_data.py
prepare_main(cfg, d) ==
    IF ~cfg.file THEN ScriptResult(d, 1, <<"prepare_data.py">>, NoFmt, NoAif)
    ELSE PrepareExit(prepare_generate_data_yaml(cfg, d))

(***************************************************************************)
(* download_dataset.py                                                     *)
(***************************************************************************)
\* seed and train_split of a run of auto_format_dataset.py that names neither
DefaultSeed == 42

DefaultTrainSplit == <<4, 5>>

\* what the archive of the provider unpacks into raw/
Extract(dir, archive) ==
    IF archive = {} THEN dir
    ELSE [dir EXCEPT !["raw"] = DirWith(@.ents \cup archive)]

\* download_kaggle_dataset(slug, dest_dir): the provider is external; fetch
\* says how the call ends: before dest_dir is made (the import or the
\* authentication fails), after it (the transfer fails) or with the archive
\* unpacked
download_kaggle_dataset(dir, fetch, archive) ==
    CASE fetch = "auth_fail" -> [dir |-> dir, ok |-> FALSE]
      [] fetch = "transfer_fail" -> [dir |-> Mkdir(dir, "."), ok |-> FALSE]
      [] fetch = "ok" -> [dir |-> Extract(Mkdir(dir, "."), archive), ok |-> TRUE]

\* lines 93-101: the subprocess ended as f
Spawned(dir, f) ==
    [dir |-> f.dir, rc |-> f.rc, fmt |-> f,
     aif |-> [called |-> TRUE, yolo |-> FALSE, spawned |-> TRUE,
              pre |-> dir, post |-> f.dir]]

\* auto_format_if_needed(dataset_dir): nothing when the layout is there,
\* else auto_format_dataset.py --base-dir dataset_dir as a subprocess
auto_format_if_needed(dir, io) ==
    IF AlreadyYolo(dir)
    THEN [dir |-> dir, rc |-> 0, fmt |-> NoFmt,
          aif |-> [called |-> TRUE, yolo |-> TRUE, spawned |-> FALSE,
                   pre |-> dir, post |-> dir]]
    ELSE Spawned(dir, auto_format_dataset(dir, DefaultTrainSplit, DefaultSeed, io))

\* lines 110-140 of generate_data_yaml, auto_format_if_needed having ended
\* as a: check=True raises CalledProcessError on a non-zero exit code
GenerateFormatted(cfg, d, a) ==
    IF a.rc # 0
    THEN [d |-> Disk(a.dir, d.yaml), err |-> "CalledProcessError",
          fmt |-> a.fmt, aif |-> a.aif]
    ELSE IF ~Exists(a.dir, "train/images")
    THEN [d |-> Disk(a.dir, d.yaml), err |-> "FileNotFoundError",
          fmt |-> a.fmt, aif |-> a.aif]
    ELSE [d |-> Disk(a.dir, Manifest(a.dir, cfg.classes)), err |-> "ok",
          fmt |-> a.fmt, aif |-> a.aif]

\* generate_data_yaml(dataset_cfg, dataset_dir) of download_dataset.py
download_generate_data_yaml(cfg, d, io) ==
    IF cfg.classes = <<>>
    THEN [d |-> d, err |-> "ValueError", fmt |-> NoFmt, aif |-> NoAif]
    ELSE GenerateFormatted(cfg, d, auto_format_if_needed(d.dir, io))

\* the scripts a run of download_dataset.py runs, itself first
DownloadScripts(g) ==
    <<"download_dataset.py">>
    \o (IF g.aif.spawned THEN <<"auto_format_dataset.py">> ELSE <<>>)

\* lines 187-193 of main(): exit code 1 on the exceptions it catches
DownloadExit(g) ==
    ScriptResult(g.d, IF g.err = "ok" THEN 0 ELSE 1, DownloadScripts(g), g.fmt, g.aif)

\* lines 177-193 of main(), the provider's fetch having ended as k: a failed
\* fetch ends the script with 1
DownloadFetched(cfg, d, k, io) ==
    IF ~k.ok THEN ScriptResult(Disk(k.dir, d.yaml), 1, <<"download_dataset.py">>,
                               NoFmt, NoAif)
    ELSE DownloadExit(download_generate_data_yaml(cfg, Disk(k.dir, d.yaml), io))

\* main() of download_dataset.py
download_main(cfg, d, inp) ==
    IF ~cfg.file THEN ScriptResult(d, 1, <<"download_dataset.py">>, NoFmt, NoAif)
    ELSE IF cfg.provider = "kaggle" /\ ~cfg.slug
    THEN ScriptResult(d, 1, <<"download_dataset.py">>, NoFmt, NoAif)
    ELSE IF cfg.provider = "kaggle"
    THEN DownloadFetched(cfg, d, download_kaggle_dataset(d.dir, inp.fetch, inp.archive),
                         inp.io)
    ELSE DownloadFetched(cfg, d, [dir |-> d.dir, ok |-> TRUE], inp.io)

(***************************************************************************)
(* train.py                                                                *)
(***************************************************************************)
\* lines 47-62 of ensure_dataset, the subprocess having ended as sub: a
\* non-zero exit code raises CalledProcessError, a data.yaml still missing
\* raises FileNotFoundError
EnsureAfter(sub) ==
    IF sub.rc # 0 \/ ~sub.d.yaml.present
    THEN ScriptResult(sub.d, 1, sub.scripts, sub.fmt, sub.aif)
    ELSE sub

\* ensure_dataset(cfg_path, dataset_cfg): data.yaml if it is there, else the
\* script that makes it, as a subprocess
ensure_dataset(cfg, d, inp) ==
    IF d.yaml.present THEN ScriptResult(d, 0, <<>>, NoFmt, NoAif)
    ELSE IF cfg.provider = "kaggle"
    THEN EnsureAfter(download_main(cfg, d, inp))
    ELSE EnsureAfter(prepare_main(cfg, d))

\* lines 84-109 of main(), ensure_dataset having ended as e: its exceptions
\* end the script with 1, else the engine runs
TrainEnsured(e, engine) ==
    ScriptResult(e.d, IF e.rc # 0 THEN 1 ELSE engine,
                 <<"train.py">> \o e.scripts, e.fmt, e.aif)

\* main() of train.py: the training engine is external and inp.engine is the
\* exit code the script ends with once the engine runs
train_main(cfg, d, inp) ==
    IF ~cfg.file THEN ScriptResult(d, 1, <<"train.py">>, NoFmt, NoAif)
    ELSE TrainEnsured(ensure_dataset(cfg, d, inp), inp.engine)

\* the process of auto_format_dataset.py ending as f
FormatExit(d, f) ==
    ScriptResult(Disk(f.dir, d.yaml), f.rc, <<"auto_format_dataset.py">>, f, NoAif)

\* main() of auto_format_dataset.py
auto_format_main(d, ratio, seed, io) ==
    FormatExit(d, auto_format_dataset(d.dir, ratio, seed, io))

(***************************************************************************)
(* The inputs the model draws.                                             *)
(***************************************************************************)
\* an I/O error after 0..MaxIoFail copies, or none
MaxIoFail == 1

IoChoices == [copies : (0..MaxIoFail) \cup {Unlimited}, listing : Listings]

\* a file system that fails no copy
Calm == [copies |-> Unlimited, listing |-> "asc"]

\* --train-split as a fraction; 4/5 is the default
Ratios == {<<4, 5>>, <<1, 2>>, <<1, 10>>, <<1, 1>>, <<-1, 2>>, <<3, 2>>}

\* --seed
Seeds == {DefaultSeed, 7}

FetchOutcomes == {"auth_fail", "transfer_fail", "ok"}

Jpgs(n) == {Name(i, ".jpg") : i \in 1..n}

Txts(S) == {Name(i, ".txt") : i \in S}

Archives == {{}, Jpgs(2) \cup Txts(1..2)}

\* exit codes of train.py once the engine runs
EngineCodes == {0, 1, 2}

Inputs == [fetch : FetchOutcomes, archive : Archives, io : IoChoices,
           engine : EngineCodes]

\* inputs that differ only in what the script never reads are drawn once:
\* the provider is reached only with provider "kaggle" and a slug, and a
\* fetch that fails unpacks nothing and ends the script before any copy
Read(cfg, inp) ==
    /\ ~(cfg.file /\ cfg.provider = "kaggle" /\ cfg.slug)
          => inp.fetch = "ok" /\ inp.archive = {}
    /\ inp.fetch # "ok" => inp.archive = {} /\ inp.io = Calm
    /\ ~cfg.file => inp.io = Calm

\* auto_format_dataset gets as far as listing the source directory
Plans(dir) ==
    /\ Exists(dir, ".")
    /\ ~AlreadyYolo(dir)
    /\ discover_source_dirs(dir) # <<>>

\* what the file system does is drawn once where the script never meets
\* it: no directory is listed by a run that ends before line 83, no file
\* is copied by a run that ensure_clean_targets ends
IoRead(dir) ==
    IF ~Plans(dir) THEN {Calm}
    ELSE IF ensure_clean_targets(dir).raised
    THEN {io \in IoChoices : io.copies = Unlimited}
    ELSE IoChoices

\* the directories generate_data_yaml of download_dataset.py starts from
Fetched(cfg, d, inp) ==
    IF cfg.provider = "kaggle"
    THEN download_kaggle_dataset(d.dir, inp.fetch, inp.archive).dir
    ELSE d.dir

\* the same for download_dataset.py, which reaches auto_format_if_needed
\* only with classes declared and the data fetched
DownloadReads(cfg, d, inp) ==
    IF cfg.file /\ cfg.classes # <<>>
          /\ (cfg.provider = "kaggle" => cfg.slug /\ inp.fetch = "ok")
    THEN inp.io \in IoRead(Fetched(cfg, d, inp))
    ELSE inp.io = Calm

\* the same for train.py, which runs download_dataset.py only without a
\* data.yaml and with the provider kaggle
TrainReads(cfg, d, inp) ==
    IF ~d.yaml.present /\ cfg.file /\ cfg.provider = "kaggle"
    THEN DownloadReads(cfg, d, inp)
    ELSE inp.io = Calm

StageOrder == <<"download", "format", "prepare", "train">>

Stages == {StageOrder[i] : i \in DOMAIN StageOrder}

(***************************************************************************)
(* The dataset roots a run may start from.                                 *)
(***************************************************************************)
\* an image of another suffix on a stem that has a .jpg, an upper-case image
\* paired with the orphan label, and an entry that is neither
Odd == {Name(1, ".png"), Name(OrphanStem, ".JPG"), Name(1, ".md")}

\* raw/: absent, or n images, all labelled, or with unlabelled images, an
\* orphan label and odd entries, or labels only, or images only, or an
\* image whose label has an upper-case suffix
RawChoices ==
    {Absent}
    \cup {DirWith(Jpgs(n) \cup Txts(1..n)) : n \in 1..MaxImages}
    \cup {DirWith(Jpgs(3) \cup Txts({1, OrphanStem}) \cup Odd),
          DirWith(Txts({OrphanStem})),
          DirWith(Jpgs(2)),
          DirWith({Name(1, ".jpg"), Name(1, ".TXT")})}

AltChoices == {Absent, DirWith(Jpgs(1) \cup Txts({1}))}

Layout(ti, tl, vi, vl, te) ==
    [p \in {"train/images", "train/labels", "val/images", "val/labels", "test/images"} |->
        CASE p = "train/images" -> ti
          [] p = "train/labels" -> tl
          [] p = "val/images" -> vi
          [] p = "val/labels" -> vl
          [] p = "test/images" -> te]

Old == DirWith({Name(1, ".jpg")})

OldLabel == DirWith({Name(1, ".txt")})

\* leaves before any run: none, a full layout, train and test only, and a
\* single leaf, empty or not
LeafChoices ==
    {Layout(Absent, Absent, Absent, Absent, Absent),
     Layout(Old, OldLabel, Old, EmptyDir, Absent),
     Layout(Old, Absent, Absent, Absent, Old),
     Layout(EmptyDir, Absent, Absent, Absent, Absent),
     Layout(Old, Absent, Absent, Absent, Absent),
     Layout(Absent, OldLabel, Absent, Absent, Absent),
     Layout(Absent, Absent, Old, Absent, Absent),
     Layout(Absent, Absent, Absent, OldLabel, Absent),
     Layout(Absent, Absent, Absent, Absent, Old)}

Tree(raw, alt, leaves) ==
    [p \in Paths |->
        CASE p = "." -> EmptyDir
          [] p = "raw" -> raw
          [] p = "alt" -> alt
          [] OTHER -> leaves[p]]

NoTree == [p \in Paths |-> Absent]

\* a flat folder: the images and labels lie in the base directory itself
FlatTree(alt) ==
    [p \in Paths |->
        CASE p = "." -> DirWith(Jpgs(2) \cup Txts(1..2))
          [] p = "alt" -> alt
          [] OTHER -> Absent]

\* a manifest left by an earlier preparation, whose directories may since
\* have been removed
OldYaml(dir) == Manifest(dir, <<"cat">>)

InitDisks ==
    {Disk(NoTree, NoYaml)}
    \cup {Disk(FlatTree(a), NoYaml) : a \in AltChoices}
    \cup {Disk(Tree(r, a, l), NoYaml) : r \in RawChoices, a \in AltChoices, l \in LeafChoices}
    \cup {Disk(Tree(r, a, l), OldYaml(Tree(r, a, l))) :
            r \in RawChoices, a \in AltChoices,
            l \in {x \in LeafChoices : x["train/images"].ex}}
    \cup {Disk(Tree(r, Absent, l), OldYaml(Tree(r, Absent, l))) :
            r \in {Absent, DirWith(Jpgs(1) \cup Txts({1}))},
            l \in {Layout(Absent, Absent, Absent, Absent, Absent)}}

(***************************************************************************)
(* The state.                                                              *)
(***************************************************************************)
VARIABLES
    disk,       \* the dataset root: directories and data.yaml
    pc,         \* "idle", or the stage the orchestrator is at
    cmd,        \* the command running or last run: script, config, skipped stages
    start,      \* the disk when that command began
    scripts,    \* the scripts run during that command, in order
    stages,     \* the stages the orchestrator invoked in it, with exit codes
    exit,       \* the exit code of the last command to finish, -1 if none
    fmt,        \* the last run of auto_format_dataset.py in that command
    aif,        \* the last call of auto_format_if_needed in that command
    aborted,    \* some run of auto_format_dataset.py left the layout partly written
    onAborted,  \* ... and it had, when the run in fmt began
    prev,       \* the run of auto_format_dataset.py before the one in fmt
    runs        \* commands begun

vars == <<disk, pc, cmd, start, scripts, stages, exit, fmt, aif, aborted, onAborted,
          prev, runs>>

NoCmd == [name |-> "none", cfg |-> CHOOSE c \in Configs : ~c.file, skip |-> {}]

Command(name, cfg, skip) == [name |-> name, cfg |-> cfg, skip |-> skip]

\* the configuration a run of auto_format_dataset.py reads: none
NoCfg == CHOOSE c \in Configs : ~c.file

Init ==
    /\ disk \in InitDisks
    /\ pc = "idle"
    /\ cmd = NoCmd
    /\ start = disk
    /\ scripts = <<>>
    /\ stages = <<>>
    /\ exit = -1
    /\ fmt = NoFmt
    /\ aif = NoAif
    /\ aborted = FALSE
    /\ onAborted = FALSE
    /\ prev = NoFmt
    /\ runs = 0

\* a run of auto_format_dataset.py that stopped after changing the root
LeftPartial(f) ==
    /\ f.outcome \in {"not_empty", "copy_error"}
    /\ f.dir # f.pre

\* the bookkeeping of a script run r within the command
Record(r) ==
    /\ disk' = r.d
    /\ scripts' = scripts \o r.scripts
    /\ fmt' = IF r.fmt.outcome # "none" THEN r.fmt ELSE fmt
    /\ aif' = IF r.aif.called THEN r.aif ELSE aif
    /\ aborted' = (aborted \/ (r.fmt.outcome # "none" /\ LeftPartial(r.fmt)))
    /\ onAborted' = IF r.fmt.outcome # "none" THEN aborted ELSE onAborted
    /\ prev' = IF r.fmt.outcome # "none" THEN fmt ELSE prev

\* a command begins: the bookkeeping of the one before is dropped
Begin(name, cfg, skip) ==
    /\ pc = "idle"
    /\ runs' = runs + 1
    /\ cmd' = Command(name, cfg, skip)
    /\ start' = disk

\* a script run as a command of its own
Alone(r) ==
    /\ disk' = r.d
    /\ scripts' = r.scripts
    /\ fmt' = r.fmt
    /\ aif' = r.aif
    /\ aborted' = (aborted \/ (r.fmt.outcome # "none" /\ LeftPartial(r.fmt)))
    /\ onAborted' = (r.fmt.outcome # "none" /\ aborted)
    /\ prev' = fmt
    /\ stages' = <<>>
    /\ exit' = r.rc
    /\ pc' = "idle"

(***************************************************************************)
(* The scripts run on their own.                                           *)
(***************************************************************************)
RunAutoFormat ==
    /\ runs < MaxRuns
    /\ \E ratio \in Ratios, seed \in Seeds, io \in IoRead(disk.dir) :
          /\ Begin("auto_format_dataset.py", NoCfg, {})
          /\ \E r \in {auto_format_main(disk, ratio, seed, io)} : Alone(r)

RunPrepare ==
    /\ runs < MaxRuns
    /\ \E cfg \in Configs :
          /\ Begin("prepare_data.py", cfg, {})
          /\ \E r \in {prepare_main(cfg, disk)} : Alone(r)

RunDownload ==
    /\ runs < MaxRuns
    /\ \E cfg \in Configs, inp \in Inputs :
          /\ inp.engine = 0
          /\ Read(cfg, inp)
          /\ DownloadReads(cfg, disk, inp)
          /\ Begin("download_dataset.py", cfg, {})
          /\ \E r \in {download_main(cfg, disk, inp)} : Alone(r)

(***************************************************************************)
(* run_pipeline.py                                                         *)
(***************************************************************************)
\* main() up to the try: a missing configuration file ends the run with 1.
\* The orchestrator is run once, on each of the roots a run may start from.
PipelineStart ==
    \E cfg \in Configs, skip \in SUBSET Stages :
        /\ runs = 0
        /\ Begin("run_pipeline.py", cfg, skip)
        /\ scripts' = <<>>
        /\ stages' = <<>>
        /\ fmt' = NoFmt
        /\ aif' = NoAif
        /\ onAborted' = FALSE
        /\ prev' = NoFmt
        /\ pc' = IF cfg.file THEN "download" ELSE "idle"
        /\ exit' = IF cfg.file THEN -1 ELSE 1
        /\ UNCHANGED <<disk, aborted>>

\* the stage after s, "idle" after the last
After(s) ==
    CASE s = "download" -> "format"
      [] s = "format" -> "prepare"
      [] s = "prepare" -> "train"
      [] s = "train" -> "idle"

\* a skipped stage: the branch that only prints
SkipStage(s) ==
    /\ pc = s
    /\ s \in cmd.skip
    /\ pc' = After(s)
    /\ exit' = IF After(s) = "idle" THEN 0 ELSE exit
    /\ UNCHANGED <<disk, cmd, start, scripts, stages, fmt, aif, aborted, onAborted,
                   prev, runs>>

\* sys.exit(1) whatever the stage returned
ExitOne(rc) == 1

\* sys.exit(exc.returncode if exc.returncode is not None else 1); the process
\* ends with the low eight bits
ExitOnFailure(rc) == rc % 256

\* run_step without check=True: the exit code of the stage is not looked at
RunStageUnchecked(s, r) ==
    /\ pc = s
    /\ s \notin cmd.skip
    /\ Record(r)
    /\ stages' = Append(stages, [name |-> s, rc |-> r.rc])
    /\ pc' = After(s)
    /\ exit' = IF After(s) = "idle" THEN 0 ELSE exit
    /\ UNCHANGED <<cmd, start, runs>>

\* run_step(...) of stage s, whose script ended as r: subprocess.run with
\* check=True raises CalledProcessError on a non-zero code, which main catches
RunStage(s, r) ==
    /\ pc = s
    /\ s \notin cmd.skip
    /\ Record(r)
    /\ stages' = Append(stages, [name |-> s, rc |-> r.rc])
    /\ pc' = IF r.rc = 0 THEN After(s) ELSE "idle"
    /\ exit' = IF r.rc # 0 THEN ExitOnFailure(r.rc)
               ELSE IF After(s) = "idle" THEN 0 ELSE exit
    /\ UNCHANGED <<cmd, start, runs>>

StageDownload ==
    \/ SkipStage("download")
    \/ /\ pc = "download"
       /\ \E inp \in Inputs :
             /\ inp.engine = 0
             /\ Read(cmd.cfg, inp)
             /\ DownloadReads(cmd.cfg, disk, inp)
             /\ \E r \in {download_main(cmd.cfg, disk, inp)} : RunStage("download", r)

StageFormat ==
    \/ SkipStage("format")
    \/ /\ pc = "format"
       /\ \E io \in IoRead(disk.dir) :
             \E r \in {auto_format_main(disk, DefaultTrainSplit, DefaultSeed, io)} :
                 RunStage("format", r)

StagePrepare ==
    \/ SkipStage("prepare")
    \/ /\ pc = "prepare"
       /\ \E r \in {prepare_main(cmd.cfg, disk)} : RunStage("prepare", r)

StageTrain ==
    \/ SkipStage("train")
    \/ /\ pc = "train"
       /\ \E inp \in Inputs :
             /\ Read(cmd.cfg, inp)
             /\ disk.yaml.present => inp.fetch = "ok" /\ inp.archive = {}
             /\ TrainReads(cmd.cfg, disk, inp)
             /\ \E r \in {train_main(cmd.cfg, disk, inp)} : RunStage("train", r)

\* the scripts run by hand, one after another, on the same root
Next ==
    \/ RunAutoFormat
    \/ RunPrepare
    \/ RunDownload

Spec == Init /\ [][Next]_vars

\* one run of the orchestrator
PipelineNext ==
    \/ PipelineStart
    \/ StageDownload
    \/ StageFormat
    \/ StagePrepare
    \/ StageTrain

PipelineSpec == Init /\ [][PipelineNext]_vars

(***************************************************************************)
(* Properties of the split (auto_format_dataset.py, lines 89-94).          *)
(***************************************************************************)
Elements(seq) == {seq[i] : i \in DOMAIN seq}

Count(seq, x) == Cardinality({i \in DOMAIN seq : seq[i] = x})

\* the run in fmt got as far as computing a split of at least one image
Planned == fmt.outcome \in {"not_empty", "copy_error", "formatted"}

\* the ratio of the run in fmt lies strictly between 0 and 1
RatioInUnit ==
    /\ 0 < fmt.plan.ratio[1]
    /\ fmt.plan.ratio[1] < fmt.plan.ratio[2]

\* train_items and val_items hold each image of the list exactly once
ExactPartition ==
    \A x \in Names :
        Count(fmt.plan.train_items, x) + Count(fmt.plan.val_items, x)
            = Count(fmt.plan.images, x)

\* C1 as stated: for a non-empty list of images and a ratio strictly between
\* 0 and 1, train_items and val_items together hold each image exactly once.
C1_PartitionAsStated == (Planned /\ RatioInUnit) => ExactPartition

\* C1: for a non-empty list of images and a ratio strictly between 0 and 1,
\* train_items and val_items together hold every image and nothing else;
\* each image is held exactly once when the split index is at least 1, and
\* when the split index is 0 both lists are the whole shuffled list.
C1_Partition ==
    (Planned /\ RatioInUnit) =>
        /\ Elements(fmt.plan.shuffled) = Elements(fmt.plan.images)
        /\ Len(fmt.plan.shuffled) = Len(fmt.plan.images)
        /\ Elements(fmt.plan.train_items) \cup Elements(fmt.plan.val_items)
               = Elements(fmt.plan.images)
        /\ fmt.plan.split_idx < Len(fmt.plan.images)
        /\ fmt.plan.split_idx >= 1 => ExactPartition
        /\ fmt.plan.split_idx = 0 =>
               /\ fmt.plan.train_items = fmt.plan.shuffled
               /\ fmt.plan.val_items = fmt.plan.shuffled

\* a formatted root whose three images were split two to one
C1_Witness ==
    /\ fmt.outcome = "formatted"
    /\ RatioInUnit
    /\ Len(fmt.plan.images) = 3
    /\ fmt.plan.split_idx = 2
    /\ fmt.plan.shuffled # fmt.plan.images

\* C2: whatever the ratio, a split of a non-empty list of images has a
\* non-empty train_items and a non-empty val_items, and after a successful
\* format train/images and val/images each hold at least one image.
C2_BothNonEmpty ==
    /\ Planned =>
          /\ fmt.plan.train_items # <<>>
          /\ fmt.plan.val_items # <<>>
    /\ fmt.outcome = "formatted" =>
          /\ fmt.rc = 0
          /\ Elements(fmt.plan.train_items) \subseteq ImagesIn(fmt.dir, "train/images")
          /\ Elements(fmt.plan.val_items) \subseteq ImagesIn(fmt.dir, "val/images")
          /\ ImagesIn(fmt.dir, "train/images") # {}
          /\ ImagesIn(fmt.dir, "val/images") # {}

\* a formatted root whose ratio put the split index at 0, train_items being
\* the fallback
C2_Witness ==
    /\ fmt.outcome = "formatted"
    /\ Len(fmt.plan.images) >= 2
    /\ fmt.plan.split_idx = 0

(***************************************************************************)
(* Properties of the target directories (ensure_clean_targets, the         *)
(* pre-check and the copies).                                              *)
(***************************************************************************)
\* some run of auto_format_dataset.py is recorded in fmt
Ran == fmt.outcome # "none"

\* the target leaves that exist and hold something before the run in fmt
NonEmptyLeaves == {i \in DOMAIN TargetLeaves : fmt.pre[TargetLeaves[i]].ents # {}}

\* the first of them in the order ensure_clean_targets looks at them
FirstNonEmptyLeaf == CHOOSE i \in NonEmptyLeaves : \A j \in NonEmptyLeaves : i <= j

\* the entries of every directory are what they were before the run in fmt
SameEntries == \A p \in Paths : fmt.dir[p].ents = fmt.pre[p].ents

\* C7 as stated: a run that ends on a non-empty target leaf has changed
\* nothing on disk.
C7_NoMutationAsStated == fmt.outcome = "not_empty" => fmt.dir = fmt.pre

\* C7: ensure_clean_targets ends the run with the non-empty-target error
\* exactly when one of the four leaves holds an entry; it has then created,
\* empty, the leaves it looked at before the first non-empty one and has
\* changed nothing else, so nothing at all when train/images is that leaf.
C7_FailsOnNonEmpty ==
    /\ (Planned /\ NonEmptyLeaves # {}) => (fmt.outcome = "not_empty" /\ fmt.rc = 1)
    /\ fmt.outcome = "not_empty" =>
          /\ NonEmptyLeaves # {}
          /\ SameEntries
          /\ \A i \in DOMAIN TargetLeaves :
                fmt.dir[TargetLeaves[i]].ex =
                    (fmt.pre[TargetLeaves[i]].ex \/ i < FirstNonEmptyLeaf)
          /\ \A p \in SubDirs \ Elements(TargetLeaves) : fmt.dir[p] = fmt.pre[p]
          /\ FirstNonEmptyLeaf = 1 => fmt.dir = fmt.pre

\* a run stopped by a non-empty val/labels after the three leaves before it
\* were created
C7_Witness ==
    /\ fmt.outcome = "not_empty"
    /\ FirstNonEmptyLeaf = 4
    /\ ~fmt.pre["train/images"].ex
    /\ fmt.dir["train/images"].ex

\* C8: a run copies into the target leaves only if every one of them was
\* absent or empty when it began, and all four exist before the first copy;
\* a leaf that held something keeps exactly what it held, the run failing.
C8_NoMerge ==
    Ran =>
        /\ (\E p \in Elements(TargetLeaves) : fmt.dir[p].ents # fmt.pre[p].ents) =>
              /\ NonEmptyLeaves = {}
              /\ \A p \in Elements(TargetLeaves) : fmt.dir[p].ex
        /\ \A p \in Elements(TargetLeaves) :
              fmt.pre[p].ents # {} => fmt.dir[p].ents = fmt.pre[p].ents
        /\ (Planned /\ NonEmptyLeaves # {}) => fmt.rc # 0

\* a run that copied into leaves some of which were there, empty, before it
C8_Witness ==
    /\ fmt.outcome = "formatted"
    /\ fmt.pre["train/images"].ex
    /\ fmt.dir["train/images"].ents # {}

\* train/images and one of val/images, test/images exist
Canonical(dir) ==
    /\ dir["train/images"].ex
    /\ dir["val/images"].ex \/ dir["test/images"].ex

\* C9: on a root where train/images and one of val/images, test/images
\* exist, auto_format_dataset returns at once with success and
\* auto_format_if_needed spawns nothing, the disk staying as it was; on any
\* other existing root the formatting is attempted.
C9_PreCheck ==
    /\ (Ran /\ Canonical(fmt.pre)) =>
          /\ fmt.outcome = "skipped"
          /\ fmt.rc = 0
          /\ fmt.dir = fmt.pre
    /\ (Ran /\ ~Canonical(fmt.pre) /\ fmt.pre["."].ex) =>
          fmt.outcome \in {"no_candidates", "no_images", "not_empty",
                           "copy_error", "formatted"}
    /\ (aif.called /\ Canonical(aif.pre)) =>
          /\ ~aif.spawned
          /\ aif.post = aif.pre
    /\ (aif.called /\ ~Canonical(aif.pre)) => aif.spawned
    /\ (cmd.name = "auto_format_dataset.py" /\ Canonical(start.dir)) =>
          /\ disk = start
          /\ exit = 0

\* a run skipped on a root that has train/images and test/images but no
\* val/images, raw material being at hand
C9_Witness ==
    /\ fmt.outcome = "skipped"
    /\ fmt.pre["test/images"].ex
    /\ ~fmt.pre["val/images"].ex
    /\ discover_source_dirs(fmt.pre) # <<>>

\* C10 as stated: a run of auto_format_dataset.py on a root that an earlier
\* run left partly written does not report success.
C10_RerunFails == (Ran /\ onAborted) => fmt.rc # 0

(***************************************************************************)
(* Properties of the orchestrator (run_pipeline.py).                       *)
(***************************************************************************)
\* the place of stage s in the fixed order
Index(s) == CHOOSE i \in DOMAIN StageOrder : StageOrder[i] = s

\* the orchestrator has begun
Orchestrated == cmd.name = "run_pipeline.py"

\* ... and ended
Finished == Orchestrated /\ pc = "idle"

\* every stage that is not skipped was invoked and returned 0
AllSucceeded ==
    \A s \in Stages \ cmd.skip :
        \E i \in DOMAIN stages : stages[i] = [name |-> s, rc |-> 0]

\* C3: the stages invoked in a run are not skipped ones, come in the order
\* download, format, prepare, train, each at most once, and each only after
\* every earlier stage that is not skipped has returned 0; a stage that
\* fails is the last one invoked and ends the run.
C3_StageOrder ==
    Orchestrated =>
        /\ \A i \in DOMAIN stages : stages[i].name \in Stages \ cmd.skip
        /\ \A i, j \in DOMAIN stages :
              i < j => Index(stages[i].name) < Index(stages[j].name)
        /\ \A i \in DOMAIN stages : i < Len(stages) => stages[i].rc = 0
        /\ \A i \in DOMAIN stages : \A s \in Stages \ cmd.skip :
              Index(s) < Index(stages[i].name) =>
                  \E j \in 1..(i - 1) : stages[j] = [name |-> s, rc |-> 0]
        /\ (stages # <<>> /\ stages[Len(stages)].rc # 0) => pc = "idle"
        /\ pc \in Stages =>
              \A s \in Stages \ cmd.skip :
                  Index(s) < Index(pc) =>
                      \E j \in DOMAIN stages : stages[j] = [name |-> s, rc |-> 0]

\* a run with --skip-download alone that ended when the format stage failed
C3_Witness ==
    /\ Finished
    /\ cmd.skip = {"download"}
    /\ Len(stages) = 1
    /\ stages[1].name = "format"
    /\ stages[1].rc # 0

\* C4 as stated: the exit code of a run is 0 if and only if every stage
\* that is not skipped succeeded, and is the code of the stage that failed
\* if one did.
C4_ExitCodeAsStated ==
    Finished =>
        /\ exit = 0 <=> AllSucceeded
        /\ \A i \in DOMAIN stages : stages[i].rc # 0 => exit = stages[i].rc

\* C4: a run whose configuration file is missing ends with 1 before any
\* stage; any other run ends with 0 if and only if every stage that is not
\* skipped succeeded, and with the code of the stage that failed if one did.
C4_ExitCode ==
    Finished =>
        IF ~cmd.cfg.file
        THEN exit = 1 /\ stages = <<>> /\ disk = start
        ELSE /\ exit = 0 <=> AllSucceeded
             /\ \A i \in DOMAIN stages : stages[i].rc # 0 => exit = stages[i].rc
             /\ exit # 0 => stages # <<>> /\ stages[Len(stages)].rc = exit

\* a run ended by the train stage failing with a code other than 1
C4_Witness ==
    /\ Finished
    /\ stages # <<>>
    /\ stages[Len(stages)] = [name |-> "train", rc |-> 2]
    /\ exit = 2

\* C5 as stated: in a run with --skip-format, auto_format_dataset.py is not
\* run and no target leaf is created or populated.
C5_SkipFormat ==
    (Orchestrated /\ "format" \in cmd.skip) =>
        /\ "auto_format_dataset.py" \notin Elements(scripts)
        /\ \A p \in Elements(TargetLeaves) : disk.dir[p] = start.dir[p]

\* C6 as stated: in a run with --skip-prepare, data.yaml is neither created
\* nor overwritten.
C6_SkipPrepare ==
    (Orchestrated /\ "prepare" \in cmd.skip) =>
        /\ disk.yaml = start.yaml
        /\ "prepare_data.py" \notin Elements(scripts)

(***************************************************************************)
(* Properties of the manifest (generate_data_yaml of prepare_data.py and   *)
(* of download_dataset.py).                                                *)
(***************************************************************************)
\* the command is a script that writes the manifest itself
WritesManifest == cmd.name \in {"prepare_data.py", "download_dataset.py"}

\* the validation directory the manifest is to name on directories dir
ExpectedVal(dir) ==
    IF dir["val/images"].ex THEN "val/images"
    ELSE IF dir["test/images"].ex THEN "test/images"
    ELSE "train/images"

\* data.yaml is the manifest of classes on the directories of the disk
ManifestMatches(classes) ==
    /\ disk.yaml.present
    /\ disk.yaml.train = "train/images"
    /\ disk.yaml.val = ExpectedVal(disk.dir)
    /\ disk.yaml.nc = Len(classes)
    /\ disk.yaml.names = classes

\* download_dataset.py got past auto_format_if_needed in generate_data_yaml
PastAutoFormat ==
    /\ cmd.name = "download_dataset.py"
    /\ aif.called
    /\ aif.spawned => fmt.rc = 0

\* C11: whenever train/images exists and classes is not empty when
\* generate_data_yaml looks for the directories, it writes a manifest whose
\* train is train/images, whose val is val/images if that exists, else
\* test/images if that exists, else train/images, whose nc is the number of
\* classes and whose names are the classes in their order.
C11_ManifestPaths ==
    /\ (WritesManifest /\ exit = 0) =>
          /\ disk.dir["train/images"].ex
          /\ ManifestMatches(cmd.cfg.classes)
    /\ (cmd.name = "prepare_data.py" /\ cmd.cfg.file /\ cmd.cfg.classes # <<>>
          /\ start.dir["train/images"].ex) =>
          /\ exit = 0
          /\ disk.dir = start.dir
    /\ (PastAutoFormat /\ disk.dir["train/images"].ex) => exit = 0

\* prepare_data.py wrote a manifest for two classes on a root that has
\* train/images and test/images but no val/images
C11_Witness ==
    /\ cmd.name = "prepare_data.py"
    /\ exit = 0
    /\ ~disk.dir["val/images"].ex
    /\ disk.yaml.val = "test/images"
    /\ disk.yaml.nc = 2

\* C12: prepare_data.py's generate_data_yaml raises the missing-classes
\* error when classes is empty and the missing-train-split error when
\* classes is not empty and train/images does not exist; the script then
\* exits with 1 and the disk, data.yaml included, is what it was.
C12_ManifestPreconditions ==
    (cmd.name = "prepare_data.py" /\ cmd.cfg.file) =>
        /\ cmd.cfg.classes = <<>> =>
              /\ prepare_generate_data_yaml(cmd.cfg, start).err = "ValueError"
              /\ exit = 1
              /\ disk = start
        /\ (cmd.cfg.classes # <<>> /\ ~start.dir["train/images"].ex) =>
              /\ prepare_generate_data_yaml(cmd.cfg, start).err = "FileNotFoundError"
              /\ exit = 1
              /\ disk = start

\* prepare_data.py failed for want of train/images on a root that holds a
\* data.yaml written earlier
C12_Witness ==
    /\ cmd.name = "prepare_data.py"
    /\ cmd.cfg.classes # <<>>
    /\ ~start.dir["train/images"].ex
    /\ start.yaml.present
    /\ exit = 1

(***************************************************************************)
(* Properties of the choice of the source directory and of the copies.     *)
(***************************************************************************)
\* the directories below the base that hold an image and a label, before
\* the run in fmt
Candidates ==
    {p \in SubDirs :
        /\ fmt.pre[p].ex
        /\ \E n \in fmt.pre[p].ents : IsImage(n)
        /\ \E n \in fmt.pre[p].ents : IsLabel(n)}

\* the place of directory p in the order of paths
Position(p) == CHOOSE i \in DOMAIN SubDirOrder : SubDirOrder[i] = p

\* C13: the source directory is a candidate with the greatest number of
\* direct entries, the earliest in path order among those with that number;
\* a run that finds no candidate fails and selects none.
C13_SourceSelection ==
    /\ Planned =>
          /\ fmt.plan.source \in Candidates
          /\ \A c \in Candidates :
                /\ Cardinality(fmt.pre[c].ents)
                       <= Cardinality(fmt.pre[fmt.plan.source].ents)
                /\ Cardinality(fmt.pre[c].ents)
                       = Cardinality(fmt.pre[fmt.plan.source].ents)
                     => Position(fmt.plan.source) <= Position(c)
    /\ (Ran /\ fmt.pre["."].ex /\ ~Canonical(fmt.pre)) =>
          (Candidates = {} <=> fmt.outcome = "no_candidates")
    /\ fmt.outcome = "no_candidates" =>
          /\ fmt.rc = 1
          /\ fmt.dir = fmt.pre

\* alt/ was selected over raw/, which holds as many entries
C13_Witness ==
    /\ Planned
    /\ fmt.plan.source = "alt"
    /\ "raw" \in Candidates
    /\ Cardinality(fmt.pre["raw"].ents) = Cardinality(fmt.pre["alt"].ents)

\* C14 as stated: a base directory that itself holds an image and a label,
\* and is not laid out yet, is found as the source and formatted from.
C14_FlatFolder ==
    (/\ Ran
     /\ fmt.pre["."].ex
     /\ \E n \in fmt.pre["."].ents : IsImage(n)
     /\ \E n \in fmt.pre["."].ents : IsLabel(n)
     /\ ~Canonical(fmt.pre)) =>
        /\ fmt.outcome # "no_candidates"
        /\ fmt.plan.source = "."

\* the items of a split of the run in fmt
ItemsOf(split) ==
    IF split = "train" THEN fmt.plan.train_items ELSE fmt.plan.val_items

\* the stems of the images of a split for which the source holds a label
LabelledStems(split) ==
    {n.stem : n \in {m \in fmt.pre[fmt.plan.source].ents :
                        /\ IsLabel(m)
                        /\ \E img \in Elements(ItemsOf(split)) : img.stem = m.stem}}

\* C15 as stated: after a successful format each split holds its images
\* under their names, and a label of a stem is in its labels directory if
\* and only if the source held a label of that stem for an image of the
\* split.
C15_LabelAlignment ==
    fmt.outcome = "formatted" =>
        \A split \in {"train", "val"} :
            /\ Elements(ItemsOf(split)) \subseteq fmt.dir[LeafOf(split, "images")].ents
            /\ \A n \in fmt.dir[LeafOf(split, "labels")].ents : IsLabel(n)
            /\ {n.stem : n \in fmt.dir[LeafOf(split, "labels")].ents}
                   = LabelledStems(split)

(***************************************************************************)
(* Properties of the split as a function of its inputs.                    *)
(***************************************************************************)
\* the run before the one in fmt computed a split too
BothPlanned ==
    /\ Planned
    /\ prev.outcome \in {"not_empty", "copy_error", "formatted"}

\* the two runs read source directories of the same contents with the same
\* ratio and seed
SameInputs ==
    /\ prev.pre[prev.plan.source].ents = fmt.pre[fmt.plan.source].ents
    /\ prev.plan.ratio = fmt.plan.ratio
    /\ prev.plan.seed = fmt.plan.seed

\* C16: two runs over source directories of the same contents, with the same
\* ratio and the same seed, compute the same train_items and val_items, in
\* whatever order the file system lists the directory.
C16_Determinism ==
    (BothPlanned /\ SameInputs) =>
        /\ prev.plan.images = fmt.plan.images
        /\ prev.plan.train_items = fmt.plan.train_items
        /\ prev.plan.val_items = fmt.plan.val_items

\* two such runs over three images or more that the file system listed in
\* different orders
C16_Witness ==
    /\ BothPlanned
    /\ SameInputs
    /\ Len(fmt.plan.images) >= 3
    /\ prev.plan.listed # fmt.plan.listed

Min(a, b) == IF a <= b THEN a ELSE b

\* P[a:b] for 0 <= a, 0 <= b
Slice(P, a, b) == SubSeq(P, Min(a, Len(P)) + 1, Min(b, Len(P)))

\* floor(n * ratio) for a ratio that is not negative
Floor(n, ratio) == (n * ratio[1]) \div ratio[2]

\* the train set of the fallback chain
ChainTrain(P, k) == IF Slice(P, 0, k) # <<>> THEN Slice(P, 0, k) ELSE P

\* the validation set of the fallback chain
ChainVal(P, k) ==
    IF Slice(P, k, Len(P)) # <<>> THEN Slice(P, k, Len(P))
    ELSE IF Slice(P, 0, Len(P) \div 5) # <<>> THEN Slice(P, 0, Len(P) \div 5)
    ELSE P

\* C17: with P the shuffled list and k = floor(len(P) * ratio), for a ratio
\* that is not negative, train_items is P[0:k], or P if that is empty, and
\* val_items is P[k:], or P[0:floor(len(P)/5)] if that is empty, or P if
\* that is empty too; a single image is in both.
C17_FallbackChain ==
    (Planned /\ fmt.plan.ratio[1] >= 0) =>
        /\ fmt.plan.split_idx = Floor(Len(fmt.plan.shuffled), fmt.plan.ratio)
        /\ fmt.plan.train_items = ChainTrain(fmt.plan.shuffled, fmt.plan.split_idx)
        /\ fmt.plan.val_items = ChainVal(fmt.plan.shuffled, fmt.plan.split_idx)
        /\ Len(fmt.plan.shuffled) = 1 =>
              /\ fmt.plan.train_items = fmt.plan.shuffled
              /\ fmt.plan.val_items = fmt.plan.shuffled

\* five images and a ratio of 1: val_items is the first fifth of the list
C17_Witness ==
    /\ Planned
    /\ Len(fmt.plan.shuffled) = 5
    /\ fmt.plan.split_idx = 5
    /\ fmt.plan.val_items = <<fmt.plan.shuffled[1]>>

(***************************************************************************)
(* Further properties of the orchestrator and of the scripts run again.    *)
(***************************************************************************)
\* C18 as stated: in a run with --skip-download, download_dataset.py is not
\* run, by no stage.
C18_SkipDownload ==
    (Orchestrated /\ "download" \in cmd.skip) =>
        "download_dataset.py" \notin Elements(scripts)

\* C19: on a root that has train/images and one of val/images, test/images,
\* what prepare_data.py's generate_data_yaml did is what download_dataset.py's
\* does from the same disk with the same configuration: the same kind of
\* error and nothing written, or the same manifest.
C19_Mirror ==
    (cmd.name = "prepare_data.py" /\ cmd.cfg.file /\ Canonical(start.dir)) =>
        \A io \in IoChoices :
            /\ download_generate_data_yaml(cmd.cfg, start, io).err
                   = prepare_generate_data_yaml(cmd.cfg, start).err
            /\ download_generate_data_yaml(cmd.cfg, start, io).d = disk
            /\ (download_generate_data_yaml(cmd.cfg, start, io).err = "ok") <=> (exit = 0)

\* prepare_data.py wrote the manifest of such a root that held none
C19_Witness ==
    /\ cmd.name = "prepare_data.py"
    /\ Canonical(start.dir)
    /\ ~start.yaml.present
    /\ disk.yaml.present
    /\ exit = 0

\* C20: a run of auto_format_dataset.py that follows a successful one on
\* the same root, whatever its ratio and seed, ends with success and leaves
\* the root as the first run left it.
C20_RerunAfterSuccess ==
    (Ran /\ prev.outcome = "formatted") =>
        /\ fmt.pre = prev.dir
        /\ fmt.rc = 0
        /\ fmt.dir = prev.dir
        /\ cmd.name = "auto_format_dataset.py" =>
              /\ exit = 0
              /\ disk = start

\* a second run with another ratio and another seed than the successful
\* first one
C20_Witness ==
    /\ Ran
    /\ cmd.name = "auto_format_dataset.py"
    /\ prev.outcome = "formatted"
    /\ Len(prev.plan.images) >= 2
    /\ exit = 0

(***************************************************************************)
(* What a run of auto_format_dataset leaves of the root it found.  The     *)
(* script changes the disk by target.mkdir and shutil.copy2 only, so a     *)
(* file it found keeps its content unless a copy is aimed at it.           *)
(***************************************************************************)
\* the run in fmt got as far as copying
Copied == fmt.outcome \in {"formatted", "copy_error"}

\* every directory and every file found before the run in fmt is there
\* after it
AllKept ==
    \A p \in Paths :
        /\ fmt.pre[p].ex => fmt.dir[p].ex
        /\ fmt.pre[p].ents \subseteq fmt.dir[p].ents

\* no shutil.copy2 of the run in fmt is aimed at a file found before it
NoneOverwritten ==
    \A i \in DOMAIN fmt.plan.calls :
        fmt.plan.calls[i].name \notin fmt.pre[fmt.plan.calls[i].to].ents

\* C21: in every run of auto_format_dataset, whether it succeeds or fails,
\* every file found under the base directory is still there afterwards and
\* no copy was aimed at it; the run changes nothing outside the four target
\* leaves, where it creates the directories and puts new files, and the
\* script run on its own leaves data.yaml as it was.
C21_SourceUntouched ==
    Ran =>
        /\ AllKept
        /\ Copied => NoneOverwritten
        /\ \A p \in Paths \ Elements(TargetLeaves) : fmt.dir[p] = fmt.pre[p]
        /\ ~Copied => SameEntries
        /\ cmd.name = "auto_format_dataset.py" =>
              /\ start.dir = fmt.pre
              /\ disk.dir = fmt.dir
              /\ disk.yaml = start.yaml

\* a run that copied the images and labels of raw into leaves it created,
\* raw holding after it what it held before
C21_Witness ==
    /\ fmt.outcome = "formatted"
    /\ fmt.plan.source = "raw"
    /\ ~fmt.pre["train/images"].ex
    /\ Len(fmt.plan.calls) >= 4
    /\ fmt.dir["train/labels"].ents # {}
    /\ fmt.dir["raw"].ents = fmt.pre["raw"].ents

=============================================================================
